---- MODULE Spec2Model ----
(***************************************************************************)
(* A model of the TripIt calendar tools:                                   *)
(*   src/countdown.py  - the countdown / CSV script (argument loop,        *)
(*                       renderers, days-remaining filter, title cleaning) *)
(*   src/tranform.py   - the Outlook transformer (Spinner, date            *)
(*                       normalizer, event rebuild, main)                  *)
(* Text is a sequence of one-character strings, so that replace and strip  *)
(* are computed as Python computes them.  Every specification below moves  *)
(* one group of variables and leaves the other groups at rest.             *)
(***************************************************************************)
EXTENDS Integers, Sequences, FiniteSets, TLC

VARIABLES
    \* ---- title cleaning (countdown.py:30, countdown.py:97)
    cleanPath,      \* which renderer's cleaning expression is evaluated
    cleanIn,        \* the SUMMARY text
    cleanOut,       \* the successive results of cleaning: <<>>, <<c1>>, <<c1, c2>>
    \* ---- days remaining (countdown.py:7-15, countdown.py:76-84)
    dFun,           \* which of the two functions is evaluated
    dToday,         \* date.today()
    dStart,         \* the event start
    dOffset,        \* subtract_days
    dK,             \* the change of the offset
    dRes,           \* the results: <<>>, <<r(offset)>>, <<r(offset), r(offset + k)>>
    \* ---- countdown.py __main__
    argv,           \* sys.argv
    ical_url,
    i,              \* the argument loop's index (Python's, 0-based)
    plain_text_output,
    show_dates_output,
    report_due_offset,
    output_format,
    today,          \* date.today(), the same for the whole run
    response,       \* what requests.get(ical_url) met
    stdout,         \* what was printed / written to standard output, in order
    exitStatus,     \* "running", "0", "1" (sys.exit(1) or an uncaught exception)
    uncaught,       \* the exception that ended the script, "none" if none did
    pc,
    \* ---- tranform.py main, Spinner
    tPhase,         \* main's stage: "fetch", "transform", "save", "done"
    tpc,            \* main's position in the stage
    tExc,           \* the exception in flight or handled, and the stage that raised it
    tResponse,      \* what requests.get returned
    tContent,       \* transformed_content
    tFile,          \* the output file
    tLog,           \* the logging records, in order
    spRunning,      \* Spinner.running
    spCursorFlag,   \* Spinner._cursor_visible
    spThread,       \* the animation thread: "none", "new", "checking", "drawing", "dead"
    spFrames,       \* frames drawn by the current spinner
    spHid,          \* whether a hide command of the current spinner succeeded
    spRestored,     \* whether the current spinner's stop() issued the restore command
    termCursor      \* the terminal's cursor: "visible" or "hidden"

cleanVars == <<cleanPath, cleanIn, cleanOut>>
daysVars == <<dFun, dToday, dStart, dOffset, dK, dRes>>
mainVars == <<argv, ical_url, i, plain_text_output, show_dates_output,
              report_due_offset, output_format, today, response, stdout, exitStatus,
              uncaught, pc>>
transformVars == <<tPhase, tpc, tExc, tResponse, tContent, tFile, tLog, spRunning,
                   spCursorFlag, spThread, spFrames, spHid, spRestored, termCursor>>
vars == <<cleanVars, daysVars, mainVars, transformVars>>

(***************************************************************************)
(* Text                                                                    *)
(***************************************************************************)

\* The literal removed from a SUMMARY.
Placeholder ==
    <<"P","L","A","C","E","H","O","L","D","E","R"," ","O","N","L","Y",":">>

\* A character is a one-character string; a character that cannot be written
\* so (a control character, a character outside ASCII) is the string of its
\* code point, "U+000B" for the vertical tab.
\* Characters str.strip() removes: the ones str.isspace() is true of.
Whitespace ==
    { " ", "\t", "\n", "\r", "\f",
      "U+000B", "U+001C", "U+001D", "U+001E", "U+001F", "U+0085", "U+00A0",
      "U+1680", "U+2000", "U+2001", "U+2002", "U+2003", "U+2004", "U+2005",
      "U+2006", "U+2007", "U+2008", "U+2009", "U+200A", "U+2028", "U+2029",
      "U+202F", "U+205F", "U+3000" }

\* Whitespace int() accepts around the number: the same but for the four ASCII
\* separators U+001C to U+001F.
IntWhitespace == Whitespace \ {"U+001C", "U+001D", "U+001E", "U+001F"}

\* Whether text s holds old at offset k (1-based).
OccursAt(s, old, k) ==
    /\ k + Len(old) - 1 <= Len(s)
    /\ \A j \in 1..Len(old) : s[k + j - 1] = old[j]

Contains(s, old) == \E k \in 1..Len(s) : OccursAt(s, old, k)

\* str.replace(old, ""): the leftmost occurrences, left to right, not overlapping.
RECURSIVE PyReplaceEmpty(_, _)
PyReplaceEmpty(s, old) ==
    IF Len(s) < Len(old) THEN s
    ELSE IF OccursAt(s, old, 1)
         THEN PyReplaceEmpty(SubSeq(s, Len(old) + 1, Len(s)), old)
         ELSE <<Head(s)>> \o PyReplaceEmpty(Tail(s), old)

\* s without its leading and trailing characters of the set chars.
StripOf(s, chars) ==
    LET keep == {k \in 1..Len(s) : s[k] \notin chars}
    IN  IF keep = {} THEN <<>>
        ELSE LET lo == CHOOSE k \in keep : \A m \in keep : k <= m
                 hi == CHOOSE k \in keep : \A m \in keep : k >= m
             IN  SubSeq(s, lo, hi)

\* str.strip(): leading and trailing whitespace removed.
PyStrip(s) == StripOf(s, Whitespace)

\* A plausible slip: the whitespace is trimmed before the literal is removed.
CleanStripFirst(summary) == PyReplaceEmpty(PyStrip(summary), Placeholder)

\* countdown.py:30  event.get('SUMMARY', '').replace("PLACEHOLDER ONLY:", "").strip()
CleanSummaryAsana(summary) == PyStrip(PyReplaceEmpty(summary, Placeholder))

\* countdown.py:97  the same expression in the countdown text renderer
CleanSummaryGeneral(summary) == PyStrip(PyReplaceEmpty(summary, Placeholder))

CleanBy(path, summary) ==
    IF path = "asana" THEN CleanSummaryAsana(summary) ELSE CleanSummaryGeneral(summary)

(***************************************************************************)
(* Title cleaning as a pure function: the inputs are drawn in Init.        *)
(***************************************************************************)

\* The number of fragments a SUMMARY is assembled from.
MaxPieces == 3

FragmentPool ==
    { Placeholder,
      <<"P","L","A","C","E","H","O","L","D","E","R"," ">>,
      <<"O","N","L","Y",":">>,
      <<" ">>,
      <<"\t">>,
      <<"U+00A0">>,
      <<"N","Y","C">> }

RECURSIVE Concat(_)
Concat(pieces) ==
    IF pieces = <<>> THEN <<>> ELSE Head(pieces) \o Concat(Tail(pieces))

\* Whether s is a SUMMARY the cleaning starts from: up to MaxPieces fragments.
IsSummaryInput(s) ==
    \E n \in 0..MaxPieces : \E f \in [1..n -> FragmentPool] : s = Concat(f)

CleanIdle ==
    /\ cleanPath = "general"
    /\ cleanIn = <<>>
    /\ cleanOut = <<>>

CleanInit ==
    /\ cleanPath \in {"asana", "general"}
    /\ IsSummaryInput(cleanIn)
    /\ cleanOut = <<>>

\* The SUMMARY is cleaned.
CleanOnce ==
    /\ Len(cleanOut) = 0
    /\ cleanOut' = <<CleanBy(cleanPath, cleanIn)>>
    /\ UNCHANGED <<cleanPath, cleanIn>>
    /\ UNCHANGED <<daysVars, mainVars, transformVars>>

\* The cleaned title is cleaned again.
CleanTwice ==
    /\ Len(cleanOut) = 1
    /\ cleanOut' = Append(cleanOut, CleanBy(cleanPath, cleanOut[1]))
    /\ UNCHANGED <<cleanPath, cleanIn>>
    /\ UNCHANGED <<daysVars, mainVars, transformVars>>

CleanNext == CleanOnce \/ CleanTwice

(***************************************************************************)
(* Dates.  A value of a DTSTART/DTEND property (its .dt) is a record       *)
(*   [kind, y, m, d, h, mi, aware, utcoff]                                 *)
(* kind "date" (datetime.date), "datetime" (datetime.datetime, naive or    *)
(* aware with a UTC offset in minutes) or "timedelta" (a duration, which   *)
(* the parser accepts as a DTSTART value and which is neither).            *)
(***************************************************************************)

Date(y, m, d) ==
    [kind |-> "date", y |-> y, m |-> m, d |-> d, h |-> 0, mi |-> 0,
     aware |-> FALSE, utcoff |-> 0]

Naive(y, m, d, h, mi) ==
    [kind |-> "datetime", y |-> y, m |-> m, d |-> d, h |-> h, mi |-> mi,
     aware |-> FALSE, utcoff |-> 0]

Aware(y, m, d, h, mi, off) ==
    [kind |-> "datetime", y |-> y, m |-> m, d |-> d, h |-> h, mi |-> mi,
     aware |-> TRUE, utcoff |-> off]

Duration ==
    [kind |-> "timedelta", y |-> 0, m |-> 0, d |-> 0, h |-> 1, mi |-> 0,
     aware |-> FALSE, utcoff |-> 0]

IsDatetime(v) == v.kind = "datetime"
\* isinstance(x, date) is true of a datetime too: datetime is a subclass of date.
IsDate(v) == v.kind \in {"date", "datetime"}

\* datetime.date(): the calendar date of the value's own wall clock.
DateOf(v) == Date(v.y, v.m, v.d)

IsLeap(y) == y % 4 = 0 /\ (y % 100 # 0 \/ y % 400 = 0)

DaysInMonth(y, m) ==
    IF m = 2 THEN (IF IsLeap(y) THEN 29 ELSE 28)
    ELSE IF m \in {4, 6, 9, 11} THEN 30 ELSE 31

RECURSIVE DaysBeforeMonth(_, _)
DaysBeforeMonth(y, m) ==
    IF m = 1 THEN 0 ELSE DaysBeforeMonth(y, m - 1) + DaysInMonth(y, m - 1)

DaysBeforeYear(y) ==
    LET p == y - 1 IN p * 365 + (p \div 4) - (p \div 100) + (p \div 400)

\* date.toordinal(): 0001-01-01 is day 1.
ToOrdinal(v) == DaysBeforeYear(v.y) + DaysBeforeMonth(v.y, v.m) + v.d

\* date.max.toordinal(), the ordinal of 9999-12-31
MaxOrdinal == 3652059
\* the largest number of days a timedelta holds
MaxDeltaDays == 999999999

\* The result of an evaluation that may raise: exc is "none" or the exception.
Value(n) == [exc |-> "none", val |-> n]
Raised(e) == [exc |-> e, val |-> 0]

\* date + timedelta(days=n), as the ordinal of the resulting date
AddDays(dt, n) ==
    IF n > MaxDeltaDays \/ n < -MaxDeltaDays THEN Raised("OverflowError")
    ELSE IF ToOrdinal(dt) + n >= 1 /\ ToOrdinal(dt) + n <= MaxOrdinal
         THEN Value(ToOrdinal(dt) + n)
    ELSE Raised("OverflowError")

\* countdown.py:7-15  calculate_days_remaining
calculate_days_remaining(todayDate, event_start, subtract_days) ==
    LET adjusted_today == AddDays(todayDate, subtract_days)
        start_date == IF IsDatetime(event_start) THEN DateOf(event_start)
                      ELSE event_start
    IN  IF adjusted_today.exc # "none" THEN adjusted_today
        ELSE IF ~IsDate(start_date) THEN Raised("TypeError")
        ELSE Value(ToOrdinal(start_date) - adjusted_today.val)

\* countdown.py:76-84  calculate_days_remaining_general
calculate_days_remaining_general(todayDate, event_start, subtract_days) ==
    LET adjusted_today == AddDays(todayDate, subtract_days)
        start_date == IF IsDatetime(event_start) THEN DateOf(event_start)
                      ELSE event_start
    IN  IF adjusted_today.exc # "none" THEN adjusted_today
        ELSE IF ~IsDate(start_date) THEN Raised("TypeError")
        ELSE Value(ToOrdinal(start_date) - adjusted_today.val)

DaysBy(fun, todayDate, event_start, subtract_days) ==
    IF fun = "asana" THEN calculate_days_remaining(todayDate, event_start, subtract_days)
    ELSE calculate_days_remaining_general(todayDate, event_start, subtract_days)

(***************************************************************************)
(* Days remaining as a pure function: the inputs are drawn in Init.        *)
(***************************************************************************)

\* The offsets and offset changes tried: -MaxShift .. MaxShift.
MaxShift == 2

TodayPool == { Date(2025, 1, 10), Date(2024, 2, 28) }

StartPool ==
    { Date(2025, 1, 15), Date(2025, 1, 9), Date(2024, 3, 1),
      Naive(2025, 1, 10, 23, 30), Aware(2025, 1, 11, 0, 30, -300) }

DaysIdle ==
    /\ dFun = "general"
    /\ dToday = Date(1, 1, 1)
    /\ dStart = Date(1, 1, 1)
    /\ dOffset = 0
    /\ dK = 0
    /\ dRes = <<>>

DaysInit ==
    /\ dFun \in {"asana", "general"}
    /\ dToday \in TodayPool
    /\ dStart \in StartPool
    /\ dOffset \in -MaxShift..MaxShift
    /\ dK \in -MaxShift..MaxShift
    /\ dRes = <<>>

\* days_remaining(event, offset)
DaysAtOffset ==
    /\ Len(dRes) = 0
    /\ dRes' = <<DaysBy(dFun, dToday, dStart, dOffset)>>
    /\ UNCHANGED <<dFun, dToday, dStart, dOffset, dK>>
    /\ UNCHANGED <<cleanVars, mainVars, transformVars>>

\* days_remaining(event, offset + k), against the same today
DaysAtShiftedOffset ==
    /\ Len(dRes) = 1
    /\ dRes' = Append(dRes, DaysBy(dFun, dToday, dStart, dOffset + dK))
    /\ UNCHANGED <<dFun, dToday, dStart, dOffset, dK>>
    /\ UNCHANGED <<cleanVars, mainVars, transformVars>>

DaysNext == DaysAtOffset \/ DaysAtShiftedOffset

(***************************************************************************)
(* Formatting                                                              *)
(***************************************************************************)

Digit(n) == <<"0","1","2","3","4","5","6","7","8","9">>[n + 1]

\* str(n) of a natural number
RECURSIVE PyStrNat(_)
PyStrNat(n) == IF n < 10 THEN <<Digit(n)>> ELSE PyStrNat(n \div 10) \o <<Digit(n % 10)>>

\* str(n) of an integer
PyStrInt(n) == IF n < 0 THEN <<"-">> \o PyStrNat(-n) ELSE PyStrNat(n)

\* %d and %m: two digits, zero padded
Pad2(n) == IF n < 10 THEN <<"0">> \o PyStrNat(n) ELSE PyStrNat(n)

\* %B in the C locale
MonthName(m) ==
    << <<"J","a","n","u","a","r","y">>, <<"F","e","b","r","u","a","r","y">>, <<"M","a","r","c","h">>, <<"A","p","r","i","l">>, <<"M","a","y">>, <<"J","u","n","e">>,
       <<"J","u","l","y">>, <<"A","u","g","u","s","t">>, <<"S","e","p","t","e","m","b","e","r">>, <<"O","c","t","o","b","e","r">>, <<"N","o","v","e","m","b","e","r">>,
       <<"D","e","c","e","m","b","e","r">> >>[m]

\* countdown.py:17-20  format_date_asana: "%Y-%m-%d", or "" for what is no date
format_date_asana(dt_object) ==
    IF IsDate(dt_object)
    THEN PyStrNat(dt_object.y) \o <<"-">> \o Pad2(dt_object.m) \o <<"-">> \o Pad2(dt_object.d)
    ELSE <<>>

\* countdown.py:86-89  format_date_general: "%B %d", or "Unknown"
format_date_general(dt_object) ==
    IF IsDate(dt_object)
    THEN MonthName(dt_object.m) \o <<" ">> \o Pad2(dt_object.d)
    ELSE <<"U","n","k","n","o","w","n">>

\* countdown.py:91-94  format_date_with_year_general: "%B %d, %Y", or "Unknown"
format_date_with_year_general(dt_object) ==
    IF IsDate(dt_object)
    THEN MonthName(dt_object.m) \o <<" ">> \o Pad2(dt_object.d) \o <<","," ">>
         \o PyStrNat(dt_object.y)
    ELSE <<"U","n","k","n","o","w","n">>

(***************************************************************************)
(* Events.  A VEVENT as the renderers read it: SUMMARY (absent reads as    *)
(* ''), LOCATION (absent or a text), URL (absent reads as ''), and the     *)
(* DTSTART / DTEND properties, each absent or holding a value.             *)
(***************************************************************************)

Absent ==
    [kind |-> "absent", y |-> 0, m |-> 0, d |-> 0, h |-> 0, mi |-> 0,
     aware |-> FALSE, utcoff |-> 0]

Event(summary, hasLocation, location, url, dtstart, dtend) ==
    [summary |-> summary, hasLocation |-> hasLocation, location |-> location,
     url |-> url, dtstart |-> dtstart, dtend |-> dtend]

\* event.get('DTSTART').dt: None has no attribute dt
PropertyDt(prop) == IF prop.kind = "absent" THEN Raised("AttributeError") ELSE Value(0)

\* One piece of output, with the index in the feed of the event it was made
\* from (0: the header or the closing sentence).
Piece(ev, text) == [ev |-> ev, text |-> text]

\* What a call for one event gives: an exception, nothing (None), or a piece.
Gives(text) == [exc |-> "none", some |-> TRUE, text |-> text]
GivesNone == [exc |-> "none", some |-> FALSE, text |-> <<>>]
Raises(e) == [exc |-> e, some |-> FALSE, text |-> <<>>]

\* countdown.py:96-119  format_summary_countdown_general
format_summary_countdown_general(todayDate, event, plain_text, show_dates, offset) ==
    LET summary == CleanSummaryGeneral(event.summary)
        location == IF event.hasLocation THEN event.location
                    ELSE <<"N","o"," ","L","o","c","a","t","i","o","n"," ","S","p","e","c","i","f","i","e","d">>
        start == event.dtstart
        end == event.dtend
        start_date_str == format_date_general(start)
        end_date_str == format_date_with_year_general(end)
        days_remaining == calculate_days_remaining_general(todayDate, start,
                                                           offset)
        date_info == IF show_dates
                     THEN <<" ","(">> \o start_date_str \o <<" ","t","o"," ">> \o end_date_str \o <<")">>
                     ELSE <<>>
        title == IF plain_text THEN summary ELSE <<"*","*">> \o summary \o <<"*","*">>
    IN  IF PropertyDt(start).exc # "none" THEN Raises(PropertyDt(start).exc)
        ELSE IF PropertyDt(end).exc # "none" THEN Raises(PropertyDt(end).exc)
        ELSE IF IsDate(start)
        THEN IF days_remaining.exc # "none" THEN Raises(days_remaining.exc)
             ELSE IF days_remaining.val >= 0
             THEN Gives(<<"-"," ">> \o title \o <<" ","-"," ">> \o location \o <<" ","(","i","n"," ">>
                        \o PyStrInt(days_remaining.val) \o <<" ","d","a","y","s",")">> \o date_info
                        \o <<"\n">>)
             ELSE GivesNone
        ELSE Gives(<<"-"," ">> \o title \o <<" ","-"," ">> \o location
                   \o <<" ","(","D","a","t","e","/","T","i","m","e"," ","U","n","k","n","o","w","n",")","\n">>)

\* What requests.get and raise_for_status meet: a failed request, a status
\* that is no success, or a body, which is a calendar or does not parse.
Fetched(kind, events) == [kind |-> kind, events |-> events]

\* The least index at which a call raised, 0 if none did.
FirstRaise(results) ==
    LET bad == {k \in DOMAIN results : results[k].exc # "none"}
    IN  IF bad = {} THEN 0 ELSE CHOOSE k \in bad : \A m \in bad : k <= m

\* The pieces of the calls that gave one, in feed order.
RECURSIVE PiecesFrom(_, _)
PiecesFrom(results, k) ==
    IF k > Len(results) THEN <<>>
    ELSE (IF results[k].some THEN <<Piece(k, results[k].text)>> ELSE <<>>)
         \o PiecesFrom(results, k + 1)

\* What a parse_ical_to_* function returns: a message (a str) or pieces.
Message(what, exc) == [isStr |-> TRUE, what |-> what, exc |-> exc, pieces |-> <<>>]
Built(what, pieces) == [isStr |-> FALSE, what |-> what, exc |-> "none", pieces |-> pieces]

\* countdown.py:121-144  parse_ical_to_summary_countdown_general
\* The text returned is the concatenation of the pieces.
parse_ical_to_summary_countdown_general(todayDate, resp, plain_text, show_dates, offset) ==
    LET heading == IF plain_text THEN <<"U","p","c","o","m","i","n","g"," ","E","v","e","n","t","s",":","\n","\n">>
                   ELSE <<"#","#","#"," ","U","p","c","o","m","i","n","g"," ","E","v","e","n","t","s",":","\n","\n">>
        results == [k \in 1..Len(resp.events) |->
                       format_summary_countdown_general(todayDate, resp.events[k],
                           plain_text, show_dates, offset)]
        lines == PiecesFrom(results, 1)
        \* a formatted line is never the empty string, so it is always truthy
        upcoming_events == lines # <<>>
    IN  IF resp.kind \in {"ConnectionError", "HTTPError"}
        THEN Message("Error fetching iCal data", resp.kind)
        ELSE IF resp.kind = "malformed"
        THEN Message("An error occurred", "ValueError")
        ELSE IF FirstRaise(results) # 0
        THEN Message("An error occurred", results[FirstRaise(results)].exc)
        ELSE Built("countdown",
                   <<Piece(0, heading)>> \o lines
                   \o (IF upcoming_events THEN <<>>
                       ELSE <<Piece(0, <<"N","o"," ","u","p","c","o","m","i","n","g"," ","e","v","e","n","t","s"," ","f","o","u","n","d",".","\n">>)>>))

\* countdown.py:27  the Asana CSV header
AsanaHeader ==
    << <<"T","a","s","k"," ","I","D">>, <<"C","r","e","a","t","e","d"," ","A","t">>, <<"C","o","m","p","l","e","t","e","d"," ","A","t">>, <<"L","a","s","t"," ","M","o","d","i","f","i","e","d">>, <<"N","a","m","e">>,
       <<"S","e","c","t","i","o","n","/","C","o","l","u","m","n">>, <<"A","s","s","i","g","n","e","e">>, <<"A","s","s","i","g","n","e","e"," ","E","m","a","i","l">>, <<"S","t","a","r","t"," ","D","a","t","e">>,
       <<"D","u","e"," ","D","a","t","e">>, <<"T","a","g","s">>, <<"N","o","t","e","s">>, <<"P","r","o","j","e","c","t","s">>, <<"P","a","r","e","n","t"," ","t","a","s","k">>,
       <<"B","l","o","c","k","e","d"," ","B","y"," ","(","D","e","p","e","n","d","e","n","c","i","e","s",")">>, <<"B","l","o","c","k","i","n","g"," ","(","D","e","p","e","n","d","e","n","c","i","e","s",")">>,
       <<"R","e","s","p","o","n","s","i","b","l","e"," ","(","D","e","p","a","r","t","m","e","n","t",")">>, <<"E","x","p","e","c","t","e","d"," ","C","o","s","t">>, <<"C","o","m","p","l","e","t","e"," ","B","y">> >>

\* countdown.py:29-67  one pass of the loop of parse_ical_to_asana_csv
AsanaRow(todayDate, event, offset) ==
    LET name == CleanSummaryAsana(event.summary)
        start == event.dtstart
        end == event.dtend
        location == IF event.hasLocation THEN event.location ELSE <<>>
        url == event.url
        start_date_str == format_date_asana(start)
        due_date_str == format_date_asana(end)
        notes == IF url # <<>>
                 THEN (IF location # <<>> THEN location \o <<" ","|"," ">> \o url ELSE url)
                 ELSE location
        days_remaining == calculate_days_remaining(todayDate, start, offset)
        now == format_date_asana(todayDate)
    IN  IF PropertyDt(start).exc # "none" THEN Raises(PropertyDt(start).exc)
        ELSE IF PropertyDt(end).exc # "none" THEN Raises(PropertyDt(end).exc)
        ELSE IF days_remaining.exc # "none" THEN Raises(days_remaining.exc)
        ELSE IF days_remaining.val >= 0
        THEN Gives(<< <<>>, now, <<>>, now, name, <<>>, <<>>, <<>>, start_date_str,
                      due_date_str, <<>>, notes, <<>>, <<>>, <<>>, <<>>, <<>>, <<>>,
                      start_date_str >>)
        ELSE GivesNone

\* countdown.py:22-74  parse_ical_to_asana_csv
parse_ical_to_asana_csv(todayDate, resp, offset) ==
    LET results == [k \in 1..Len(resp.events) |->
                       AsanaRow(todayDate, resp.events[k], offset)]
    IN  IF resp.kind \in {"ConnectionError", "HTTPError"}
        THEN Message("Error fetching iCal data", resp.kind)
        ELSE IF resp.kind = "malformed"
        THEN Message("An error occurred", "ValueError")
        ELSE IF FirstRaise(results) # 0
        THEN Message("An error occurred", results[FirstRaise(results)].exc)
        ELSE Built("asana_csv", <<Piece(0, AsanaHeader)>> \o PiecesFrom(results, 1))

(***************************************************************************)
(* countdown.py __main__: the argument loop and the output dispatch        *)
(***************************************************************************)

OptPlain == <<"-","-","p","l","a","i","n">>
OptDates == <<"-","-","d","a","t","e","s">>
OptReportDue == <<"-","-","r","e","p","o","r","t","_","d","u","e">>
OptCsv == <<"-","-","c","s","v">>
OptAsanaCsv == <<"-","-","a","s","a","n","a","_","c","s","v">>

\* The decimal digits int() reads (the characters of Unicode category Nd), one
\* row for each script, from zero to nine.
DecimalDigits ==
    << <<"0","1","2","3","4","5","6","7","8","9">>,
       <<"U+0660","U+0661","U+0662","U+0663","U+0664","U+0665","U+0666","U+0667","U+0668","U+0669">>,
       <<"U+06F0","U+06F1","U+06F2","U+06F3","U+06F4","U+06F5","U+06F6","U+06F7","U+06F8","U+06F9">>,
       <<"U+07C0","U+07C1","U+07C2","U+07C3","U+07C4","U+07C5","U+07C6","U+07C7","U+07C8","U+07C9">>,
       <<"U+0966","U+0967","U+0968","U+0969","U+096A","U+096B","U+096C","U+096D","U+096E","U+096F">>,
       <<"U+09E6","U+09E7","U+09E8","U+09E9","U+09EA","U+09EB","U+09EC","U+09ED","U+09EE","U+09EF">>,
       <<"U+0A66","U+0A67","U+0A68","U+0A69","U+0A6A","U+0A6B","U+0A6C","U+0A6D","U+0A6E","U+0A6F">>,
       <<"U+0AE6","U+0AE7","U+0AE8","U+0AE9","U+0AEA","U+0AEB","U+0AEC","U+0AED","U+0AEE","U+0AEF">>,
       <<"U+0B66","U+0B67","U+0B68","U+0B69","U+0B6A","U+0B6B","U+0B6C","U+0B6D","U+0B6E","U+0B6F">>,
       <<"U+0BE6","U+0BE7","U+0BE8","U+0BE9","U+0BEA","U+0BEB","U+0BEC","U+0BED","U+0BEE","U+0BEF">>,
       <<"U+0C66","U+0C67","U+0C68","U+0C69","U+0C6A","U+0C6B","U+0C6C","U+0C6D","U+0C6E","U+0C6F">>,
       <<"U+0CE6","U+0CE7","U+0CE8","U+0CE9","U+0CEA","U+0CEB","U+0CEC","U+0CED","U+0CEE","U+0CEF">>,
       <<"U+0D66","U+0D67","U+0D68","U+0D69","U+0D6A","U+0D6B","U+0D6C","U+0D6D","U+0D6E","U+0D6F">>,
       <<"U+0DE6","U+0DE7","U+0DE8","U+0DE9","U+0DEA","U+0DEB","U+0DEC","U+0DED","U+0DEE","U+0DEF">>,
       <<"U+0E50","U+0E51","U+0E52","U+0E53","U+0E54","U+0E55","U+0E56","U+0E57","U+0E58","U+0E59">>,
       <<"U+0ED0","U+0ED1","U+0ED2","U+0ED3","U+0ED4","U+0ED5","U+0ED6","U+0ED7","U+0ED8","U+0ED9">>,
       <<"U+0F20","U+0F21","U+0F22","U+0F23","U+0F24","U+0F25","U+0F26","U+0F27","U+0F28","U+0F29">>,
       <<"U+1040","U+1041","U+1042","U+1043","U+1044","U+1045","U+1046","U+1047","U+1048","U+1049">>,
       <<"U+1090","U+1091","U+1092","U+1093","U+1094","U+1095","U+1096","U+1097","U+1098","U+1099">>,
       <<"U+17E0","U+17E1","U+17E2","U+17E3","U+17E4","U+17E5","U+17E6","U+17E7","U+17E8","U+17E9">>,
       <<"U+1810","U+1811","U+1812","U+1813","U+1814","U+1815","U+1816","U+1817","U+1818","U+1819">>,
       <<"U+1946","U+1947","U+1948","U+1949","U+194A","U+194B","U+194C","U+194D","U+194E","U+194F">>,
       <<"U+19D0","U+19D1","U+19D2","U+19D3","U+19D4","U+19D5","U+19D6","U+19D7","U+19D8","U+19D9">>,
       <<"U+1A80","U+1A81","U+1A82","U+1A83","U+1A84","U+1A85","U+1A86","U+1A87","U+1A88","U+1A89">>,
       <<"U+1A90","U+1A91","U+1A92","U+1A93","U+1A94","U+1A95","U+1A96","U+1A97","U+1A98","U+1A99">>,
       <<"U+1B50","U+1B51","U+1B52","U+1B53","U+1B54","U+1B55","U+1B56","U+1B57","U+1B58","U+1B59">>,
       <<"U+1BB0","U+1BB1","U+1BB2","U+1BB3","U+1BB4","U+1BB5","U+1BB6","U+1BB7","U+1BB8","U+1BB9">>,
       <<"U+1C40","U+1C41","U+1C42","U+1C43","U+1C44","U+1C45","U+1C46","U+1C47","U+1C48","U+1C49">>,
       <<"U+1C50","U+1C51","U+1C52","U+1C53","U+1C54","U+1C55","U+1C56","U+1C57","U+1C58","U+1C59">>,
       <<"U+A620","U+A621","U+A622","U+A623","U+A624","U+A625","U+A626","U+A627","U+A628","U+A629">>,
       <<"U+A8D0","U+A8D1","U+A8D2","U+A8D3","U+A8D4","U+A8D5","U+A8D6","U+A8D7","U+A8D8","U+A8D9">>,
       <<"U+A900","U+A901","U+A902","U+A903","U+A904","U+A905","U+A906","U+A907","U+A908","U+A909">>,
       <<"U+A9D0","U+A9D1","U+A9D2","U+A9D3","U+A9D4","U+A9D5","U+A9D6","U+A9D7","U+A9D8","U+A9D9">>,
       <<"U+A9F0","U+A9F1","U+A9F2","U+A9F3","U+A9F4","U+A9F5","U+A9F6","U+A9F7","U+A9F8","U+A9F9">>,
       <<"U+AA50","U+AA51","U+AA52","U+AA53","U+AA54","U+AA55","U+AA56","U+AA57","U+AA58","U+AA59">>,
       <<"U+ABF0","U+ABF1","U+ABF2","U+ABF3","U+ABF4","U+ABF5","U+ABF6","U+ABF7","U+ABF8","U+ABF9">>,
       <<"U+FF10","U+FF11","U+FF12","U+FF13","U+FF14","U+FF15","U+FF16","U+FF17","U+FF18","U+FF19">>,
       <<"U+104A0","U+104A1","U+104A2","U+104A3","U+104A4","U+104A5","U+104A6","U+104A7","U+104A8","U+104A9">>,
       <<"U+10D30","U+10D31","U+10D32","U+10D33","U+10D34","U+10D35","U+10D36","U+10D37","U+10D38","U+10D39">>,
       <<"U+11066","U+11067","U+11068","U+11069","U+1106A","U+1106B","U+1106C","U+1106D","U+1106E","U+1106F">>,
       <<"U+110F0","U+110F1","U+110F2","U+110F3","U+110F4","U+110F5","U+110F6","U+110F7","U+110F8","U+110F9">>,
       <<"U+11136","U+11137","U+11138","U+11139","U+1113A","U+1113B","U+1113C","U+1113D","U+1113E","U+1113F">>,
       <<"U+111D0","U+111D1","U+111D2","U+111D3","U+111D4","U+111D5","U+111D6","U+111D7","U+111D8","U+111D9">>,
       <<"U+112F0","U+112F1","U+112F2","U+112F3","U+112F4","U+112F5","U+112F6","U+112F7","U+112F8","U+112F9">>,
       <<"U+11450","U+11451","U+11452","U+11453","U+11454","U+11455","U+11456","U+11457","U+11458","U+11459">>,
       <<"U+114D0","U+114D1","U+114D2","U+114D3","U+114D4","U+114D5","U+114D6","U+114D7","U+114D8","U+114D9">>,
       <<"U+11650","U+11651","U+11652","U+11653","U+11654","U+11655","U+11656","U+11657","U+11658","U+11659">>,
       <<"U+116C0","U+116C1","U+116C2","U+116C3","U+116C4","U+116C5","U+116C6","U+116C7","U+116C8","U+116C9">>,
       <<"U+11730","U+11731","U+11732","U+11733","U+11734","U+11735","U+11736","U+11737","U+11738","U+11739">>,
       <<"U+118E0","U+118E1","U+118E2","U+118E3","U+118E4","U+118E5","U+118E6","U+118E7","U+118E8","U+118E9">>,
       <<"U+11950","U+11951","U+11952","U+11953","U+11954","U+11955","U+11956","U+11957","U+11958","U+11959">>,
       <<"U+11C50","U+11C51","U+11C52","U+11C53","U+11C54","U+11C55","U+11C56","U+11C57","U+11C58","U+11C59">>,
       <<"U+11D50","U+11D51","U+11D52","U+11D53","U+11D54","U+11D55","U+11D56","U+11D57","U+11D58","U+11D59">>,
       <<"U+11DA0","U+11DA1","U+11DA2","U+11DA3","U+11DA4","U+11DA5","U+11DA6","U+11DA7","U+11DA8","U+11DA9">>,
       <<"U+16A60","U+16A61","U+16A62","U+16A63","U+16A64","U+16A65","U+16A66","U+16A67","U+16A68","U+16A69">>,
       <<"U+16AC0","U+16AC1","U+16AC2","U+16AC3","U+16AC4","U+16AC5","U+16AC6","U+16AC7","U+16AC8","U+16AC9">>,
       <<"U+16B50","U+16B51","U+16B52","U+16B53","U+16B54","U+16B55","U+16B56","U+16B57","U+16B58","U+16B59">>,
       <<"U+1D7CE","U+1D7CF","U+1D7D0","U+1D7D1","U+1D7D2","U+1D7D3","U+1D7D4","U+1D7D5","U+1D7D6","U+1D7D7">>,
       <<"U+1D7D8","U+1D7D9","U+1D7DA","U+1D7DB","U+1D7DC","U+1D7DD","U+1D7DE","U+1D7DF","U+1D7E0","U+1D7E1">>,
       <<"U+1D7E2","U+1D7E3","U+1D7E4","U+1D7E5","U+1D7E6","U+1D7E7","U+1D7E8","U+1D7E9","U+1D7EA","U+1D7EB">>,
       <<"U+1D7EC","U+1D7ED","U+1D7EE","U+1D7EF","U+1D7F0","U+1D7F1","U+1D7F2","U+1D7F3","U+1D7F4","U+1D7F5">>,
       <<"U+1D7F6","U+1D7F7","U+1D7F8","U+1D7F9","U+1D7FA","U+1D7FB","U+1D7FC","U+1D7FD","U+1D7FE","U+1D7FF">>,
       <<"U+1E140","U+1E141","U+1E142","U+1E143","U+1E144","U+1E145","U+1E146","U+1E147","U+1E148","U+1E149">>,
       <<"U+1E2F0","U+1E2F1","U+1E2F2","U+1E2F3","U+1E2F4","U+1E2F5","U+1E2F6","U+1E2F7","U+1E2F8","U+1E2F9">>,
       <<"U+1E950","U+1E951","U+1E952","U+1E953","U+1E954","U+1E955","U+1E956","U+1E957","U+1E958","U+1E959">>,
       <<"U+1FBF0","U+1FBF1","U+1FBF2","U+1FBF3","U+1FBF4","U+1FBF5","U+1FBF6","U+1FBF7","U+1FBF8","U+1FBF9">> >>

DigitChars == {DecimalDigits[b][k] : b \in DOMAIN DecimalDigits, k \in 1..10}
DigitVal(c) == CHOOSE n \in 0..9 : \E b \in DOMAIN DecimalDigits : DecimalDigits[b][n + 1] = c

RECURSIVE DigitsValue(_, _)
DigitsValue(s, acc) ==
    IF s = <<>> THEN acc
    ELSE IF Head(s) = "_" THEN DigitsValue(Tail(s), acc)
    ELSE DigitsValue(Tail(s), acc * 10 + DigitVal(Head(s)))

\* The digits of s from its first digit that is not a zero: the leading zeros
\* add nothing to the value.
Significant(s) ==
    LET nonzero == {k \in 1..Len(s) : s[k] # "_" /\ DigitVal(s[k]) # 0}
    IN  IF nonzero = {} THEN <<>>
        ELSE SubSeq(s, CHOOSE k \in nonzero : \A m \in nonzero : k <= m, Len(s))

\* sys.get_int_max_str_digits(): the most digits int() converts
MaxStrDigits == 4300

\* int(s): surrounding whitespace, an optional sign, decimal digits with single
\* underscores between them, no more than MaxStrDigits digits; anything else
\* is a ValueError.
PyInt(s) ==
    LET t == StripOf(s, IntWhitespace)
        signed == t # <<>> /\ Head(t) \in {"+", "-"}
        digits == IF signed THEN Tail(t) ELSE t
        wellFormed ==
            /\ digits # <<>>
            /\ digits[1] \in DigitChars
            /\ digits[Len(digits)] \in DigitChars
            /\ \A k \in 1..Len(digits) : digits[k] \in DigitChars \cup {"_"}
            /\ \A k \in 1..(Len(digits) - 1) : ~(digits[k] = "_" /\ digits[k + 1] = "_")
        count == Cardinality({k \in 1..Len(digits) : digits[k] # "_"})
    IN  IF ~wellFormed THEN Raised("ValueError")
        ELSE IF count > MaxStrDigits THEN Raised("ValueError")
        ELSE IF signed /\ Head(t) = "-" THEN Value(-DigitsValue(Significant(digits), 0))
        ELSE Value(DigitsValue(Significant(digits), 0))

\* The number of arguments after the feed URL.
MaxArgs == 4

Script == <<"c","o","u","n","t","d","o","w","n",".","p","y">>
FeedUrl == <<"h","t","t","p",":","/","/","f","e","e","d">>

TokenPool ==
    { OptPlain, OptDates, OptReportDue, OptCsv, OptAsanaCsv, <<"5">>, <<"a","b","c">>,
      <<"U+00A0", "U+0667">> }

\* Whether a is a command line the runs start from: the script alone, the
\* script with an empty URL, or the script, the feed URL and up to MaxArgs tokens.
IsArgvInput(a) ==
    \/ a = <<Script>>
    \/ a = <<Script, <<>> >>
    \/ \E n \in 0..MaxArgs : \E opts \in [1..n -> TokenPool] :
          a = <<Script, FeedUrl>> \o opts

EventPool ==
    { Event(<<" ","P","L","A","C","E","H","O","L","D","E","R"," ","O","N","L","Y",":"," ","F","l","i","g","h","t"," ","t","o"," ","N","Y","C"," ">>, TRUE, <<"J","F","K">>, <<"h","t","t","p",":","/","/","x">>,
            Date(2025, 1, 15), Date(2025, 2, 1)),
      Event(<<"H","o","t","e","l">>, FALSE, <<>>, <<>>,
            Naive(2025, 1, 9, 15, 0), Naive(2025, 1, 12, 11, 0)),
      Event(<<"D","i","n","n","e","r">>, TRUE, <<"R","o","m","e">>, <<>>, Date(2025, 1, 20), Absent),
      Event(<<"C","a","l","l">>, FALSE, <<>>, <<>>, Absent, Date(2025, 1, 21)),
      Event(<<"L","a","y","o","v","e","r">>, FALSE, <<>>, <<"h","t","t","p",":","/","/","y">>, Duration, Date(2025, 1, 21)) }

\* The feeds: none, one or two VEVENTs.
FeedPool ==
    { <<>> } \cup { <<e>> : e \in EventPool }
    \cup { <<e, f>> : e \in EventPool, f \in EventPool }

ResponsePool ==
    { Fetched("ConnectionError", <<>>), Fetched("HTTPError", <<>>),
      Fetched("malformed", <<>>) }
    \cup { Fetched("calendar", feed) : feed \in FeedPool }

NotFetched == Fetched("none", <<>>)

MainTodayPool == { Date(2025, 1, 10) }

\* What reached standard output: a print of a str, or rows through csv.writer.
Printed(what, exc, pieces) == [via |-> "print", what |-> what, exc |-> exc, pieces |-> pieces]
Written(what, pieces) == [via |-> "csv.writer", what |-> what, exc |-> "none", pieces |-> pieces]

IntError == Printed("Error: --report_due argument must be an integer.", "ValueError", <<>>)
Usage == Printed("Usage", "none", <<>>)

MainIdle ==
    /\ argv = <<>>
    /\ ical_url = <<>>
    /\ i = 0
    /\ plain_text_output = FALSE
    /\ show_dates_output = FALSE
    /\ report_due_offset = 0
    /\ output_format = "text"
    /\ today = Date(1, 1, 1)
    /\ response = NotFetched
    /\ stdout = <<>>
    /\ exitStatus = "running"
    /\ uncaught = "none"
    /\ pc = "idle"

\* countdown.py:147-151
MainInit ==
    /\ IsArgvInput(argv)
    /\ today \in MainTodayPool
    /\ ical_url = <<>>
    /\ i = 0
    /\ plain_text_output = FALSE
    /\ show_dates_output = FALSE
    /\ report_due_offset = 0
    /\ output_format = "text"
    /\ response = NotFetched
    /\ stdout = <<>>
    /\ exitStatus = "running"
    /\ uncaught = "none"
    /\ pc = "start"

\* sys.argv[i]
Arg(k) == argv[k + 1]

argFrame == <<argv, ical_url, today, response, exitStatus, uncaught>>

\* countdown.py:153-155
TakeUrl ==
    /\ pc = "start"
    /\ Len(argv) > 1
    /\ ical_url' = Arg(1)
    /\ i' = 2
    /\ pc' = "args"
    /\ UNCHANGED <<argv, plain_text_output, show_dates_output, report_due_offset,
                   output_format, today, response, stdout, exitStatus, uncaught>>
    /\ UNCHANGED <<cleanVars, daysVars, transformVars>>

\* countdown.py:172-181
PrintUsage ==
    /\ pc = "start"
    /\ ~(Len(argv) > 1)
    /\ stdout' = Append(stdout, Usage)
    /\ exitStatus' = "1"
    /\ pc' = "done"
    /\ UNCHANGED <<argv, ical_url, i, plain_text_output, show_dates_output,
                   report_due_offset, output_format, today, response, uncaught>>
    /\ UNCHANGED <<cleanVars, daysVars, transformVars>>

InLoop == pc = "args" /\ i < Len(argv)

\* countdown.py:157-158, 171
ArgPlain ==
    /\ InLoop
    /\ Arg(i) = OptPlain
    /\ plain_text_output' = TRUE
    /\ i' = i + 1
    /\ UNCHANGED <<argFrame, show_dates_output, report_due_offset, output_format,
                   stdout, pc>>
    /\ UNCHANGED <<cleanVars, daysVars, transformVars>>

\* countdown.py:159-160, 171
ArgDates ==
    /\ InLoop
    /\ Arg(i) = OptDates
    /\ show_dates_output' = TRUE
    /\ i' = i + 1
    /\ UNCHANGED <<argFrame, plain_text_output, report_due_offset, output_format,
                   stdout, pc>>
    /\ UNCHANGED <<cleanVars, daysVars, transformVars>>

\* countdown.py:161
AtReportDue == InLoop /\ Arg(i) = OptReportDue /\ i + 1 < Len(argv)

\* countdown.py:161-164, 171: the value is taken and both tokens are passed
ArgReportDue ==
    /\ AtReportDue
    /\ PyInt(Arg(i + 1)).exc = "none"
    /\ report_due_offset' = PyInt(Arg(i + 1)).val
    /\ i' = i + 2
    /\ UNCHANGED <<argFrame, plain_text_output, show_dates_output, output_format,
                   stdout, pc>>
    /\ UNCHANGED <<cleanVars, daysVars, transformVars>>

\* A plausible slip: the error path falls back to the default offset.
ArgReportDueMalformedResets ==
    /\ AtReportDue
    /\ PyInt(Arg(i + 1)).exc = "ValueError"
    /\ stdout' = Append(stdout, IntError)
    /\ report_due_offset' = 0
    /\ i' = i + 1
    /\ UNCHANGED <<argFrame, plain_text_output, show_dates_output, output_format, pc>>
    /\ UNCHANGED <<cleanVars, daysVars, transformVars>>

\* countdown.py:161-162, 165-166, 171: the message is printed, only the option
\* is passed
ArgReportDueMalformed ==
    /\ AtReportDue
    /\ PyInt(Arg(i + 1)).exc = "ValueError"
    /\ stdout' = Append(stdout, IntError)
    /\ i' = i + 1
    /\ UNCHANGED <<argFrame, plain_text_output, show_dates_output, report_due_offset,
                   output_format, pc>>
    /\ UNCHANGED <<cleanVars, daysVars, transformVars>>

\* countdown.py:167-168, 171
ArgCsv ==
    /\ InLoop
    /\ Arg(i) = OptCsv
    /\ output_format' = "csv"
    /\ i' = i + 1
    /\ UNCHANGED <<argFrame, plain_text_output, show_dates_output, report_due_offset,
                   stdout, pc>>
    /\ UNCHANGED <<cleanVars, daysVars, transformVars>>

\* countdown.py:169-170, 171
ArgAsanaCsv ==
    /\ InLoop
    /\ Arg(i) = OptAsanaCsv
    /\ output_format' = "asana_csv"
    /\ i' = i + 1
    /\ UNCHANGED <<argFrame, plain_text_output, show_dates_output, report_due_offset,
                   stdout, pc>>
    /\ UNCHANGED <<cleanVars, daysVars, transformVars>>

\* countdown.py:157-171: no branch takes the token (a --report_due that is the
\* last token is among these)
ArgIgnored ==
    /\ InLoop
    /\ Arg(i) \notin {OptPlain, OptDates, OptCsv, OptAsanaCsv}
    /\ ~AtReportDue
    /\ i' = i + 1
    /\ UNCHANGED <<argFrame, plain_text_output, show_dates_output, report_due_offset,
                   output_format, stdout, pc>>
    /\ UNCHANGED <<cleanVars, daysVars, transformVars>>

\* countdown.py:156: the loop ends
ArgsEnd ==
    /\ pc = "args"
    /\ ~(i < Len(argv))
    /\ pc' = "dispatch"
    /\ UNCHANGED <<argFrame, i, plain_text_output, show_dates_output,
                   report_due_offset, output_format, stdout>>
    /\ UNCHANGED <<cleanVars, daysVars, transformVars>>

dispatchFrame == <<argv, ical_url, i, plain_text_output, show_dates_output,
                   report_due_offset, output_format, today>>

\* countdown.py:183: an empty URL, nothing is done
DispatchNoUrl ==
    /\ pc = "dispatch"
    /\ ical_url = <<>>
    /\ exitStatus' = "0"
    /\ pc' = "done"
    /\ UNCHANGED <<dispatchFrame, response, stdout, uncaught>>
    /\ UNCHANGED <<cleanVars, daysVars, transformVars>>

\* countdown.py:184-185: parse_ical_to_csv is defined nowhere, the call raises
\* NameError, which nothing catches
DispatchCsv ==
    /\ pc = "dispatch"
    /\ ical_url # <<>>
    /\ output_format = "csv"
    /\ uncaught' = "NameError"
    /\ exitStatus' = "1"
    /\ pc' = "done"
    /\ UNCHANGED <<dispatchFrame, response, stdout>>
    /\ UNCHANGED <<cleanVars, daysVars, transformVars>>

\* print(x) of a str, writer.writerows(x) of a list
Emit(result) ==
    IF result.isStr THEN Printed(result.what, result.exc, result.pieces)
    ELSE Written(result.what, result.pieces)

\* countdown.py:191-197
DispatchAsanaCsv ==
    /\ pc = "dispatch"
    /\ ical_url # <<>>
    /\ output_format = "asana_csv"
    /\ \E r \in ResponsePool :
          /\ response' = r
          /\ stdout' = Append(stdout, Emit(parse_ical_to_asana_csv(today, r, report_due_offset)))
    /\ exitStatus' = "0"
    /\ pc' = "done"
    /\ UNCHANGED <<dispatchFrame, uncaught>>
    /\ UNCHANGED <<cleanVars, daysVars, transformVars>>

\* countdown.py:198-200
DispatchText ==
    /\ pc = "dispatch"
    /\ ical_url # <<>>
    /\ output_format \notin {"csv", "asana_csv"}
    /\ \E r \in ResponsePool :
          LET out == parse_ical_to_summary_countdown_general(today, r,
                         plain_text_output, show_dates_output, report_due_offset)
          IN  /\ response' = r
              /\ stdout' = Append(stdout, Printed(out.what, out.exc, out.pieces))
    /\ exitStatus' = "0"
    /\ pc' = "done"
    /\ UNCHANGED <<dispatchFrame, uncaught>>
    /\ UNCHANGED <<cleanVars, daysVars, transformVars>>

MainNext ==
    \/ TakeUrl
    \/ PrintUsage
    \/ ArgPlain
    \/ ArgDates
    \/ ArgReportDue
    \/ ArgReportDueMalformed
    \/ ArgCsv
    \/ ArgAsanaCsv
    \/ ArgIgnored
    \/ ArgsEnd
    \/ DispatchNoUrl
    \/ DispatchCsv
    \/ DispatchAsanaCsv
    \/ DispatchText

(***************************************************************************)
(* tranform.py: the date normalizer and the event rebuild                  *)
(***************************************************************************)

\* datetime.MINYEAR and datetime.MAXYEAR: the years a date can have
MinYear == 1
MaxYear == 9999

\* What date arithmetic yields in place of a date outside MinYear..MaxYear:
\* the OverflowError it raises.
Overflow ==
    [kind |-> "OverflowError", y |-> 0, m |-> 0, d |-> 0, h |-> 0, mi |-> 0,
     aware |-> FALSE, utcoff |-> 0]

Overflows(v) == v.kind = "OverflowError"

NextDay(v) ==
    IF v.d < DaysInMonth(v.y, v.m) THEN [v EXCEPT !.d = v.d + 1]
    ELSE IF v.m < 12 THEN [v EXCEPT !.m = v.m + 1, !.d = 1]
    ELSE IF v.y < MaxYear THEN [v EXCEPT !.y = v.y + 1, !.m = 1, !.d = 1]
    ELSE Overflow

PrevDay(v) ==
    IF v.d > 1 THEN [v EXCEPT !.d = v.d - 1]
    ELSE IF v.m > 1 THEN [v EXCEPT !.m = v.m - 1, !.d = DaysInMonth(v.y, v.m - 1)]
    ELSE IF v.y > MinYear THEN [v EXCEPT !.y = v.y - 1, !.m = 12, !.d = 31]
    ELSE Overflow

\* The date of v moved by n days, or Overflow.
RECURSIVE MoveDays(_, _)
MoveDays(v, n) ==
    IF n = 0 \/ Overflows(v) THEN v
    ELSE IF n > 0 THEN MoveDays(NextDay(v), n - 1)
    ELSE MoveDays(PrevDay(v), n + 1)

\* The wall clock of datetime v moved by n minutes, or Overflow.
ShiftMinutes(v, n) ==
    LET t == v.h * 60 + v.mi + n
        day == MoveDays(v, t \div 1440)
        u == t % 1440
    IN  IF Overflows(day) THEN Overflow
        ELSE [day EXCEPT !.h = u \div 60, !.mi = u % 60]

\* timedelta(hours=1): normalized to days=0, seconds=3600
OneHour == [days |-> 0, minutes |-> 60]

\* x + timedelta: a datetime moves by the whole timedelta, a date by its days
\* only, and a timedelta is added to; a result out of range is an OverflowError.
PlusTimedelta(v, td) ==
    IF v.kind = "datetime" THEN ShiftMinutes(v, td.days * 1440 + td.minutes)
    ELSE IF v.kind = "timedelta"
    THEN LET t == (v.d + td.days) * 1440 + v.h * 60 + v.mi + td.minutes
         IN  IF t \div 1440 > MaxDeltaDays \/ t \div 1440 < -MaxDeltaDays THEN Overflow
             ELSE [v EXCEPT !.d = t \div 1440, !.h = (t % 1440) \div 60, !.mi = t % 60]
    ELSE MoveDays(v, td.days)

\* tranform.py:89-101  CalendarTransformer._normalize_datetime: a naive
\* datetime is taken as UTC, an aware one is converted to UTC (OverflowError
\* when the UTC wall clock falls outside the years of a date), anything else
\* is returned as it is
normalize_datetime(dt) ==
    IF IsDatetime(dt)
    THEN IF ~dt.aware
         THEN [dt EXCEPT !.aware = TRUE, !.utcoff = 0]
         ELSE LET utc == ShiftMinutes(dt, -dt.utcoff)
              IN  IF Overflows(utc) THEN Overflow ELSE [utc EXCEPT !.utcoff = 0]
    ELSE dt

\* What _transform_event returns or raises.
Rebuilt(start_dt, end_dt) == [exc |-> "none", dtstart |-> start_dt, dtend |-> end_dt]
RebuildRaised(e) == [exc |-> e, dtstart |-> Absent, dtend |-> Absent]

\* tranform.py:103-129  CalendarTransformer._transform_event: the dtstart and
\* dtend of the rebuilt event (the other properties are copied as they are);
\* the start is normalized first, then the end is normalized or defaulted
transform_event(original_event) ==
    LET dtstart == original_event.dtstart
        dtend == original_event.dtend
        start_dt == normalize_datetime(dtstart)
        end_dt == IF dtend.kind # "absent" THEN normalize_datetime(dtend)
                  ELSE PlusTimedelta(start_dt, OneHour)
    IN  IF dtstart.kind = "absent" THEN Rebuilt(Absent, Absent)
        ELSE IF Overflows(start_dt) \/ Overflows(end_dt) THEN RebuildRaised("OverflowError")
        ELSE Rebuilt(start_dt, end_dt)

\* What a call returns or raises.
Returned(events) == [exc |-> "none", some |-> TRUE, events |-> events]
NoContent == [exc |-> "none", some |-> FALSE, events |-> <<>>]
Failed(e) == [exc |-> e, some |-> FALSE, events |-> <<>>]

\* tranform.py:131-152  CalendarTransformer.transform_for_outlook: the VEVENTs
\* of the new calendar, in the order of the source; a body that does not parse
\* makes from_ical raise ValueError, and what the rebuild of an event raises
\* ends the walk and is raised again
transform_for_outlook(resp) ==
    IF resp.body = "malformed" THEN Failed("ValueError")
    ELSE LET rebuilt == [k \in 1..Len(resp.events) |-> transform_event(resp.events[k])]
         IN  IF FirstRaise(rebuilt) # 0 THEN Failed(rebuilt[FirstRaise(rebuilt)].exc)
             ELSE Returned(rebuilt)

(***************************************************************************)
(* tranform.py: main and the Spinner                                       *)
(***************************************************************************)

\* Frames of one spinner that are told apart.
MaxFrames == 1

TEvent(dtstart, dtend) == [dtstart |-> dtstart, dtend |-> dtend]

TEventPool ==
    { TEvent(Naive(2025, 3, 1, 10, 0), Absent),
      TEvent(Aware(2025, 3, 1, 23, 30, -300), Aware(2025, 3, 2, 1, 0, -300)),
      TEvent(Aware(2025, 12, 31, 23, 30, 0), Absent),
      TEvent(Date(2025, 3, 1), Absent),
      TEvent(Duration, Absent),
      TEvent(Naive(9999, 12, 31, 23, 30), Absent),
      TEvent(Absent, Absent) }

TFeedPool ==
    { <<>> } \cup { <<e>> : e \in TEventPool }
    \cup { <<e, f>> : e \in TEventPool, f \in TEventPool }

\* What requests.get returns: a status code and a body.
TResponse(status, body, events) == [status |-> status, body |-> body, events |-> events]

TNoResponse == TResponse(0, "none", <<>>)

StatusPool == {200, 404}

TResponsePool ==
    { TResponse(st, "malformed", <<>>) : st \in StatusPool }
    \cup { TResponse(st, "calendar", feed) : st \in StatusPool, feed \in TFeedPool }

\* Response.raise_for_status raises HTTPError for 4xx and 5xx.
IsErrorStatus(st) == st >= 400 /\ st < 600

NoExc == [type |-> "none", stage |-> "none"]
Exc(type, stage) == [type |-> type, stage |-> stage]

\* requests.RequestException and its subclasses
RequestExceptions == {"ConnectionError", "Timeout", "HTTPError"}

Untouched == [state |-> "untouched", content |-> NoContent]

TransformIdle ==
    /\ tPhase = "idle"
    /\ tpc = "idle"
    /\ tExc = NoExc
    /\ tResponse = TNoResponse
    /\ tContent = NoContent
    /\ tFile = Untouched
    /\ tLog = <<>>
    /\ spRunning = FALSE
    /\ spCursorFlag = FALSE
    /\ spThread = "none"
    /\ spFrames = 0
    /\ spHid = FALSE
    /\ spRestored = FALSE
    /\ termCursor = "visible"

\* tranform.py:156-174: the arguments are parsed, nothing is fetched yet
TransformInit ==
    /\ tPhase = "fetch"
    /\ tpc = "init"
    /\ tExc = NoExc
    /\ tResponse = TNoResponse
    /\ tContent = NoContent
    /\ tFile = Untouched
    /\ tLog = <<>>
    /\ spRunning = FALSE
    /\ spCursorFlag = FALSE
    /\ spThread = "none"
    /\ spFrames = 0
    /\ spHid = FALSE
    /\ spRestored = FALSE
    /\ termCursor = "visible"

\* os.system returns 0 when the command succeeded.
ExitCodes == {0, 1}

mainOnly == <<tPhase, tExc, tResponse, tContent, tFile, tLog>>
notTransform == <<cleanVars, daysVars, mainVars>>

\* tranform.py:22-35  Spinner.__init__: a new thread object, and
\* _cursor_visible = not os.system('tput civis') == 0, that is, whether the
\* hide command failed
SpinnerInit ==
    /\ tPhase \in {"fetch", "transform"}
    /\ tpc = "init"
    /\ \E rc \in ExitCodes :
          /\ spCursorFlag' = ~(rc = 0)
          /\ spHid' = (rc = 0)
          /\ termCursor' = IF rc = 0 THEN "hidden" ELSE termCursor
    /\ spThread' = "new"
    /\ spRunning' = FALSE
    /\ spFrames' = 0
    /\ spRestored' = FALSE
    /\ tpc' = "start"
    /\ UNCHANGED <<mainOnly, notTransform>>

\* tranform.py:49-54, 67-70  Spinner.__enter__ / Spinner.start
SpinnerStart ==
    /\ tpc = "start"
    /\ spRunning' = TRUE
    /\ \E rc \in ExitCodes :
          /\ spHid' = (spHid \/ rc = 0)
          /\ termCursor' = IF rc = 0 THEN "hidden" ELSE termCursor
    /\ spThread' = "checking"
    /\ tpc' = "body"
    /\ UNCHANGED <<mainOnly, spCursorFlag, spFrames, spRestored, notTransform>>

\* tranform.py:40, 46  Spinner._spin: the thread reads self.running
SpinCheck ==
    /\ spThread = "checking"
    /\ spThread' = IF spRunning THEN "drawing" ELSE "dead"
    /\ UNCHANGED <<mainOnly, tpc, spRunning, spCursorFlag, spFrames, spHid,
                   spRestored, termCursor, notTransform>>

\* tranform.py:41-45  Spinner._spin: a frame is written, the thread sleeps
SpinDraw ==
    /\ spThread = "drawing"
    /\ spFrames' = IF spFrames < MaxFrames THEN spFrames + 1 ELSE spFrames
    /\ spThread' = "checking"
    /\ UNCHANGED <<mainOnly, tpc, spRunning, spCursorFlag, spHid, spRestored,
                   termCursor, notTransform>>

spinnerState == <<spRunning, spCursorFlag, spThread, spFrames, spHid, spRestored,
                  termCursor>>

\* tranform.py:176-177  requests.get returns a response
FetchReturns ==
    /\ tPhase = "fetch"
    /\ tpc = "body"
    /\ tResponse' \in TResponsePool
    /\ tpc' = "stop"
    /\ UNCHANGED <<tPhase, tExc, tContent, tFile, tLog, spinnerState, notTransform>>

\* tranform.py:176-177  requests.get raises (no connection, a timeout)
FetchRaises ==
    /\ tPhase = "fetch"
    /\ tpc = "body"
    /\ \E e \in {"ConnectionError", "Timeout"} : tExc' = Exc(e, "fetch")
    /\ tpc' = "stop"
    /\ UNCHANGED <<tPhase, tResponse, tContent, tFile, tLog, spinnerState, notTransform>>

\* tranform.py:186, 150-152  the calendar is transformed; a failure is logged
\* by the transformer and raised again
Transform ==
    /\ tPhase = "transform"
    /\ tpc = "body"
    /\ LET out == transform_for_outlook(tResponse)
       IN  IF out.exc = "none"
           THEN /\ tContent' = out
                /\ UNCHANGED <<tExc, tLog>>
           ELSE /\ tExc' = Exc(out.exc, "transform")
                /\ tLog' = Append(tLog, "ERROR: Failed during calendar transformation")
                /\ UNCHANGED tContent
    /\ tpc' = "stop"
    /\ UNCHANGED <<tPhase, tResponse, tFile, spinnerState, notTransform>>

\* tranform.py:56-58, 72-74  Spinner.__exit__ / Spinner.stop: running is cleared
SpinnerStop ==
    /\ tpc = "stop"
    /\ spRunning' = FALSE
    /\ tpc' = "join"
    /\ UNCHANGED <<mainOnly, spCursorFlag, spThread, spFrames, spHid, spRestored,
                   termCursor, notTransform>>

\* tranform.py:59-65  Spinner.stop: the thread is joined, the line cleared, and
\* the cursor restored if _cursor_visible; an exception of the block goes on
SpinnerJoin ==
    /\ tpc = "join"
    /\ spThread = "dead"
    /\ IF spCursorFlag
       THEN /\ spRestored' = TRUE
            /\ \E rc \in ExitCodes :
                  termCursor' = IF rc = 0 THEN "visible" ELSE termCursor
       ELSE UNCHANGED <<spRestored, termCursor>>
    /\ tpc' = IF tExc = NoExc THEN "after" ELSE "except"
    /\ UNCHANGED <<mainOnly, spRunning, spCursorFlag, spThread, spFrames, spHid,
                   notTransform>>

\* A plausible slip: the status of the response is not looked at.
CheckStatusSkipped ==
    /\ tPhase = "fetch"
    /\ tpc = "after"
    /\ tLog' = Append(tLog, "INFO: Successfully fetched calendar data.")
    /\ tPhase' = "transform"
    /\ tpc' = "init"
    /\ UNCHANGED <<tExc, tResponse, tContent, tFile, spinnerState, notTransform>>

\* tranform.py:179-180  response.raise_for_status()
CheckStatus ==
    /\ tPhase = "fetch"
    /\ tpc = "after"
    /\ IF IsErrorStatus(tResponse.status)
       THEN /\ tExc' = Exc("HTTPError", "status")
            /\ tpc' = "except"
            /\ UNCHANGED <<tPhase, tLog>>
       ELSE /\ tLog' = Append(tLog, "INFO: Successfully fetched calendar data.")
            /\ tPhase' = "transform"
            /\ tpc' = "init"
            /\ UNCHANGED tExc
    /\ UNCHANGED <<tResponse, tContent, tFile, spinnerState, notTransform>>

\* tranform.py:187
TransformDone ==
    /\ tPhase = "transform"
    /\ tpc = "after"
    /\ tLog' = Append(tLog, "INFO: Transformation complete.")
    /\ tPhase' = "save"
    /\ tpc' = "body"
    /\ UNCHANGED <<tExc, tResponse, tContent, tFile, spinnerState, notTransform>>

\* tranform.py:190-195  the directories are made, the file is opened and written
Save ==
    /\ tPhase = "save"
    /\ tpc = "body"
    /\ tFile' = [state |-> "written", content |-> tContent]
    /\ tLog' = Append(tLog, "INFO: Successfully saved transformed calendar")
    /\ tPhase' = "done"
    /\ tpc' = "end"
    /\ UNCHANGED <<tExc, tResponse, tContent, spinnerState, notTransform>>

\* tranform.py:190-194  makedirs or open raises OSError (the file is not
\* touched), or f.write does: the file is left opened and empty, or holding a
\* part of the calendar, cut after any of its events
SaveRaises ==
    /\ tPhase = "save"
    /\ tpc = "body"
    /\ \/ UNCHANGED tFile
       \/ tFile' = [state |-> "opened", content |-> NoContent]
       \/ \E n \in 0..Len(tContent.events) :
             tFile' = [state |-> "partial",
                       content |-> Returned(SubSeq(tContent.events, 1, n))]
    /\ tExc' = Exc("OSError", "save")
    /\ tpc' = "except"
    /\ UNCHANGED <<tPhase, tResponse, tContent, tLog, spinnerState, notTransform>>

\* tranform.py:197-200  the handlers
Handle ==
    /\ tpc = "except"
    /\ tLog' = Append(tLog, IF tExc.type \in RequestExceptions
                            THEN "ERROR: Error fetching the URL"
                            ELSE "ERROR: An unexpected error occurred")
    /\ tPhase' = "done"
    /\ tpc' = "end"
    /\ UNCHANGED <<tExc, tResponse, tContent, tFile, spinnerState, notTransform>>

TransformNext ==
    \/ SpinnerInit
    \/ SpinnerStart
    \/ SpinCheck
    \/ SpinDraw
    \/ FetchReturns
    \/ FetchRaises
    \/ Transform
    \/ SpinnerStop
    \/ SpinnerJoin
    \/ CheckStatus
    \/ TransformDone
    \/ Save
    \/ SaveRaises
    \/ Handle

(***************************************************************************)
(* Specifications                                                          *)
(***************************************************************************)

\* The countdown script.
Init == MainInit /\ CleanIdle /\ DaysIdle /\ TransformIdle
Next == MainNext
Spec == Init /\ [][Next]_vars

\* Title cleaning.
InitClean == CleanInit /\ DaysIdle /\ MainIdle /\ TransformIdle
NextClean == CleanNext
SpecClean == InitClean /\ [][NextClean]_vars

\* Days remaining.
InitDays == DaysInit /\ CleanIdle /\ MainIdle /\ TransformIdle
NextDays == DaysNext
SpecDays == InitDays /\ [][NextDays]_vars

\* The transform entry point.
InitTransform == TransformInit /\ CleanIdle /\ DaysIdle /\ MainIdle
NextTransform == TransformNext
SpecTransform == InitTransform /\ [][NextTransform]_vars

(***************************************************************************)
(* Properties                                                              *)
(***************************************************************************)

\* The feed of the run, once fetched and parsed.
Events == response.events

Rendered == pc = "done" /\ response.kind = "calendar"

\* The pieces on standard output made from event k of the feed.
PiecesOf(k) ==
    { p \in UNION { {item.pieces[n] : n \in DOMAIN item.pieces} : item \in
                    {stdout[n] : n \in DOMAIN stdout} } : p.ev = k }

\* Whether text s ends with text t.
EndsWith(s, t) == Len(s) >= Len(t) /\ SubSeq(s, Len(s) - Len(t) + 1, Len(s)) = t

\* days_remaining of event k for the run's offset, by the renderer's own function.
RunDays(k) ==
    DaysBy(IF output_format = "asana_csv" THEN "asana" ELSE "general",
           today, Events[k].dtstart, report_due_offset)

\* C1: in the countdown text renderer and the Asana CSV renderer, an event
\* whose start is a date or a datetime has a line / a row in the output if and
\* only if its days_remaining for the run's offset is >= 0.
IncludedIffNotPast ==
    (Rendered /\ output_format \in {"text", "asana_csv"}) =>
        \A k \in 1..Len(Events) :
            IsDate(Events[k].dtstart) =>
                (PiecesOf(k) # {} <=> (RunDays(k).exc = "none" /\ RunDays(k).val >= 0))

\* C2: days_remaining(event, offset + k) = days_remaining(event, offset) + k,
\* both evaluated against the same today.
OffsetShiftAdds ==
    (Len(dRes) = 2 /\ dRes[1].exc = "none" /\ dRes[2].exc = "none") =>
        dRes[2].val = dRes[1].val + dK

UnknownTail == <<" ","(","D","a","t","e","/","T","i","m","e"," ","U","n","k","n","o","w","n",")","\n">>

\* C3: in the countdown text renderer every event whose start is missing or
\* is no date yields its own "(Date/Time Unknown)" line, whatever the offset,
\* and the header and the lines of the other events are emitted as well.
UnknownStartAlwaysListed ==
    (Rendered /\ output_format = "text") =>
        \A k \in 1..Len(Events) :
            ~IsDate(Events[k].dtstart) =>
                /\ \E p \in PiecesOf(k) : EndsWith(p.text, UnknownTail)
                /\ PiecesOf(0) # {}
                /\ \A j \in 1..Len(Events) :
                      (IsDate(Events[j].dtstart) /\ RunDays(j).exc = "none"
                       /\ RunDays(j).val >= 0) => PiecesOf(j) # {}

GenericCsvHeader == << <<"T","a","s","k">>, <<"D","u","e"," ","D","a","t","e">>, <<"N","o","t","e","s">> >>

\* C4: a run with --csv writes the header row Task, Due Date, Notes to
\* standard output, followed by the data rows.
CsvRunWritesHeader ==
    (pc = "done" /\ ical_url # <<>> /\ output_format = "csv") =>
        \E n \in DOMAIN stdout :
            /\ stdout[n].via = "csv.writer"
            /\ stdout[n].pieces # <<>>
            /\ stdout[n].pieces[1].text = GenericCsvHeader

\* One hour after a start: of a date, one o'clock of that day.
OneHourAfter(v) ==
    IF v.kind = "date" THEN [v EXCEPT !.kind = "datetime", !.h = 1]
    ELSE ShiftMinutes(v, 60)

\* C5: in the normalized calendar every event that has a dtstart and no dtend,
\* be the dtstart a naive datetime, an aware datetime or a date, gets as dtend
\* its normalized dtstart plus one hour.
DefaultEndIsStartPlusOneHour ==
    tContent.some =>
        \A k \in 1..Len(tResponse.events) :
            (IsDate(tResponse.events[k].dtstart)
             /\ tResponse.events[k].dtend.kind = "absent") =>
                tContent.events[k].dtend = OneHourAfter(tContent.events[k].dtstart)

\* C6: in the countdown text and Asana CSV renderers an event with a start and
\* no end is rendered whenever its days_remaining is >= 0, the end shown as
\* "Unknown" in the date range of the text and as an empty Due Date in the CSV.
MissingEndStillRendered ==
    (Rendered /\ output_format \in {"text", "asana_csv"}) =>
        \A k \in 1..Len(Events) :
            (IsDate(Events[k].dtstart) /\ Events[k].dtend.kind = "absent"
             /\ RunDays(k).exc = "none" /\ RunDays(k).val >= 0) =>
                \E p \in PiecesOf(k) :
                    /\ (output_format = "text" /\ show_dates_output)
                          => EndsWith(p.text, <<" ","t","o"," ","U","n","k","n","o","w","n",")","\n">>)
                    /\ output_format = "asana_csv" => p.text[10] = <<>>

\* C7 as stated: cleaning a cleaned title changes nothing.
CleanIdempotent == Len(cleanOut) = 2 => cleanOut[2] = cleanOut[1]

\* C7, amended: cleaning a cleaned title changes nothing exactly when the
\* cleaned title does not contain the literal "PLACEHOLDER ONLY:" (removing the
\* occurrences can splice the pieces around them into a new occurrence, which
\* the second cleaning removes).
CleanIdempotentUnlessSpliced ==
    Len(cleanOut) = 2 =>
        (cleanOut[2] = cleanOut[1] <=> ~Contains(cleanOut[1], Placeholder))

\* A summary with the literal and surrounding whitespace, cleaned twice to the
\* same non-empty title.
CleanedTwiceSame ==
    /\ Len(cleanOut) = 2
    /\ Contains(cleanIn, Placeholder)
    /\ cleanIn[Len(cleanIn)] \in Whitespace
    /\ cleanOut[1] # <<>>
    /\ ~Contains(cleanOut[1], Placeholder)
    /\ cleanOut[2] = cleanOut[1]

\* The loop stands at a --report_due whose following token is no integer.
AtMalformedReportDue == AtReportDue /\ PyInt(Arg(i + 1)).exc = "ValueError"

\* C8 as stated: a --report_due whose following token is no integer prints the
\* error, does not end the loop or the run, and leaves the offset at 0.
MalformedReportDueLeavesDefault ==
    [][AtMalformedReportDue =>
          /\ stdout' = Append(stdout, IntError)
          /\ pc' = "args" /\ exitStatus' = "running" /\ i' = i + 1
          /\ report_due_offset' = 0]_vars

\* C8, amended: a --report_due whose following token is no integer prints the
\* error, does not end the loop or the run (the loop goes on with the next
\* token), and leaves the offset as it was: 0 unless an earlier --report_due
\* with an integer set it.
MalformedReportDueLeavesOffset ==
    [][AtMalformedReportDue =>
          /\ stdout' = Append(stdout, IntError)
          /\ pc' = "args" /\ exitStatus' = "running" /\ i' = i + 1
          /\ report_due_offset' = report_due_offset]_vars

\* A run that set the offset to 5, then met a malformed --report_due, and
\* went on to its end with the offset still 5.
MalformedAfterValidReportDue ==
    /\ pc = "done"
    /\ exitStatus = "0"
    /\ report_due_offset = 5
    /\ Len(stdout) = 2
    /\ stdout[1] = IntError
    /\ Arg(2) = OptReportDue

FailedBeforeSave == tExc.stage \in {"fetch", "status", "transform"}

IsErrorRecord(rec) ==
    rec \in {"ERROR: Error fetching the URL", "ERROR: An unexpected error occurred"}

\* C9: the output file is opened and written only after the fetch, the status
\* check and the transformation of the whole calendar have succeeded; after a
\* failure of any of them the file is untouched and, at the end, the error is
\* logged.
WriteOnlyAfterSuccess ==
    /\ tFile.state # "untouched" =>
          /\ tResponse # TNoResponse
          /\ ~IsErrorStatus(tResponse.status)
          /\ tContent.some
          /\ tContent = transform_for_outlook(tResponse)
          /\ ~FailedBeforeSave
          /\ tFile.state = "written" => tFile.content = tContent
    /\ FailedBeforeSave => tFile = Untouched
    /\ (FailedBeforeSave /\ tPhase = "done") => IsErrorRecord(tLog[Len(tLog)])

\* A run that wrote a calendar of two events.
WroteTwoEvents ==
    /\ tPhase = "done"
    /\ tFile.state = "written"
    /\ Len(tFile.content.events) = 2

\* The current spinner's with-block has been left: stop() has returned.
SpinnerStopped == spThread = "dead" /\ tpc # "join"

\* C10: once a Spinner's with-block has been left, stop() has issued the
\* restore command if a hide command of that spinner succeeded.
CursorRestoredAfterExit == (SpinnerStopped /\ spHid) => spRestored

====
